---- MODULE Spec2Model ----
(***************************************************************************)
(* Model of the O_DIRECT gRPC file service (src/src/main.rs) and of the    *)
(* two FileIO backends (src/src/file_io.rs).                               *)
(*                                                                         *)
(* The service keeps one FileManager { file, current_offset, request_map } *)
(* behind a mutex.  Every request handler (write_data / read_data) runs as *)
(* its own task; a task takes the FileManager mutex for a short section,   *)
(* duplicates the file handle with try_clone, and does its seek + transfer *)
(* on a blocking worker outside the mutex.  File::try_clone is dup(2): all *)
(* duplicated handles share ONE file position, modelled by filePos.        *)
(***************************************************************************)
EXTENDS Integers, Sequences, FiniteSets, TLC

(* ------------------------------ bounds -------------------------------- *)
NumTasks == 2
MaxWrites == 2
MaxReads == 2

(* -------------------------- program constants ------------------------- *)
BlockSize == 512

Tasks == 1..NumTasks
NoTask == 0
Ids == {"a", "b"}
None == [none |-> TRUE]

(* ------------------------------ bytes --------------------------------- *)
(* A byte string (Vec<u8>, the contents of the file) is kept run-length    *)
(* encoded: a sequence of runs <<byte, count>> with count >= 1 and no two  *)
(* adjacent runs of the same byte.  Every byte string has exactly one such *)
(* encoding, so equality of encodings is equality of byte strings.         *)
Max(a, b) == IF a > b THEN a ELSE b

\* vec![b; n]
Fill(n, b) == IF n = 0 THEN << >> ELSE << <<b, n>> >>

\* Vec::len
RECURSIVE BLen(_)
BLen(x) == IF x = << >> THEN 0 ELSE Head(x)[2] + BLen(Tail(x))

\* x followed by y
BCat(x, y) ==
    IF x = << >> THEN y
    ELSE IF y = << >> THEN x
    ELSE IF x[Len(x)][1] = Head(y)[1]
         THEN SubSeq(x, 1, Len(x) - 1)
              \o << <<Head(y)[1], x[Len(x)][2] + Head(y)[2]>> >> \o Tail(y)
         ELSE x \o y

\* x[..n]
RECURSIVE BTake(_, _)
BTake(x, n) ==
    IF n = 0 \/ x = << >> THEN << >>
    ELSE IF Head(x)[2] <= n
         THEN <<Head(x)>> \o BTake(Tail(x), n - Head(x)[2])
         ELSE << <<Head(x)[1], n>> >>

\* x[n..]
RECURSIVE BDrop(_, _)
BDrop(x, n) ==
    IF n = 0 \/ x = << >> THEN x
    ELSE IF Head(x)[2] <= n
         THEN BDrop(Tail(x), n - Head(x)[2])
         ELSE << <<Head(x)[1], Head(x)[2] - n>> >> \o Tail(x)

\* the byte string with the bytes of the sequence s
RECURSIVE Bytes(_)
Bytes(s) == IF s = << >> THEN << >> ELSE BCat(<< <<Head(s), 1>> >>, Bytes(Tail(s)))

\* "Hello, World!" : the 13 bytes the test client writes first
Hello == Bytes(<<72, 101, 108, 108, 111, 44, 32, 87, 111, 114, 108, 100, 33>>)

\* payloads a WriteRequest may carry: empty, short, longer than one block
Payloads == {<< >>, Hello, Fill(BlockSize + 1, 7)}

\* contents of data.bin when the server starts: empty, one block, or a
\* file whose length is not a multiple of the block size
InitFiles == {<< >>, Fill(BlockSize, 9), Fill(13, 9)}

\* mutant of AlignedSize: always one more block, (n / block_size + 1) * block_size
AlignedSizeNext(n) == (n \div BlockSize + 1) * BlockSize

\* mutant of AlignedSize: the length is not rounded up
AlignedSizeExact(n) == n

\* ((n + block_size - 1) / block_size) * block_size
AlignedSize(n) == ((n + BlockSize - 1) \div BlockSize) * BlockSize

\* mutant of align_data_for_odirect: the buffer is never shorter than a block
align_data_one_block_min(data) ==
    BCat(data, Fill(Max(AlignedSize(BLen(data)), BlockSize) - BLen(data), 0))

\* data.resize(aligned_size, 0) when current_size < aligned_size
align_data_for_odirect(data) ==
    IF BLen(data) < AlignedSize(BLen(data))
    THEN BCat(data, Fill(AlignedSize(BLen(data)) - BLen(data), 0))
    ELSE data

\* write(2) of buf at position p of a regular file f; a hole past the old
\* end of file reads as zeros.  write_all of an empty buffer makes no call.
WriteBytes(f, p, buf) ==
    IF BLen(buf) = 0 THEN f
    ELSE LET g == IF BLen(f) < p THEN BCat(f, Fill(p - BLen(f), 0)) ELSE f IN
         BCat(BCat(BTake(g, p), buf), BDrop(g, p + BLen(buf)))

\* the bytes [p, p + n) of f
ReadBytes(f, p, n) == BTake(BDrop(f, p), n)

\* HashMap::get(..).cloned()
MapGet(map, id) == IF id \in DOMAIN map THEN map[id] ELSE None

\* mutant of MapInsert: entry(id).or_insert(md) keeps an entry already there
MapInsertKeep(map, id, md) ==
    [k \in DOMAIN map \cup {id} |-> IF k \in DOMAIN map THEN map[k] ELSE md]

\* HashMap::insert: replaces the entry of id, keeps the others
MapInsert(map, id, md) ==
    [k \in DOMAIN map \cup {id} |-> IF k = id THEN md ELSE map[k]]

(* ----------------------------- responses ------------------------------ *)
\* Err(Status::...) : a protocol-level status
StatusOf(code, msg) == [kind |-> "status", code |-> code, message |-> msg]

WriteResponse(id, offset, success, msg) ==
    [kind |-> "write_response", request_id |-> id, offset |-> offset,
     success |-> success, error_message |-> msg]

ReadResponse(id, data, success, msg) ==
    [kind |-> "read_response", request_id |-> id, data |-> data,
     success |-> success, error_message |-> msg]

(* ------------------------------- state -------------------------------- *)
VARIABLES
    file,            \* contents of the backing file data.bin
    filePos,         \* position of the open file description all handles share
    current_offset,  \* FileManager.current_offset
    request_map,     \* FileManager.request_map : id -> {offset, size}
    fm_lock,         \* holder of the FileManager mutex, or NoTask
    map_lock,        \* holder of the request_map mutex, or NoTask
    pc,              \* position of every handler task
    req,             \* the request a task is handling
    offset,          \* write: the cursor snapshot; read: metadata.offset
    metadata,        \* read: the looked-up metadata (or None)
    resp,            \* what the handler returned
    \* history variables (not program state)
    writesStarted,   \* number of WriteData requests received so far
    readsStarted,    \* number of ReadData requests received so far
    wnum,            \* the number of the write a task is handling
    issued,          \* {[w, offset, len]} : transfers issued by writes
    failed,          \* {[w, offset, len]} : writes whose transfer failed
    transferred,     \* ids with a write whose transfer completed
    readLog,         \* {[id, data]} : results of the successful reads
    solo,            \* no other write has been in flight during this one
    prevW,           \* the last write returned, if it ran alone and succeeded
    pred,            \* prevW as a write found it when it started
    init_len,        \* length of the file at startup
    received,        \* ids some WriteData request has carried
    rewritten,       \* ids more than one WriteData request has carried
    hit,             \* read: the index had an entry of the id at the lookup
    \* the two FileIO backends of file_io.rs, driven side by side
    ringFile,        \* contents of the file behind LinuxFileIO
    fbFile,          \* contents of the file behind FallbackFileIO
    fbPos,           \* file position the handles of FallbackFileIO share
    ringRes,         \* what the last call returned on LinuxFileIO
    fbRes,           \* what the last call returned on FallbackFileIO
    calls,           \* number of calls made so far
    \* align_data_for_odirect called on its own
    padIn,           \* the payload handed to align_data_for_odirect
    padOut           \* [data |-> the buffer it returned], or None before the first call

progVars == <<file, filePos, current_offset, request_map, fm_lock, map_lock>>
taskVars == <<pc, req, offset, metadata, resp>>
histVars == <<writesStarted, readsStarted, wnum, issued, failed, transferred,
              readLog, solo, prevW, pred, init_len, received, rewritten, hit>>
serviceVars == <<progVars, taskVars, histVars>>
backendVars == <<ringFile, fbFile, fbPos, ringRes, fbRes, calls>>
alignVars == <<padIn, padOut>>
vars == <<serviceVars, backendVars, alignVars>>

IsWrite(t) == pc[t] # "idle" /\ req[t].kind = "write"
IsRead(t) == pc[t] # "idle" /\ req[t].kind = "read"
InFlightWrite(t) == IsWrite(t) /\ pc[t] # "done"
InFlightRead(t) == IsRead(t) /\ pc[t] # "done"

\* the runtime starts one handler task per request; which task is immaterial,
\* so a request always takes the first free one
FreeTask(t) == pc[t] = "idle" /\ \A u \in Tasks : u < t => pc[u] # "idle"

\* FileManager::new : current_offset = metadata.len(), empty request_map
ServiceInit ==
    /\ file \in InitFiles
    /\ filePos = 0
    /\ current_offset = BLen(file)
    /\ request_map = << >>
    /\ fm_lock = NoTask
    /\ map_lock = NoTask
    /\ pc = [t \in Tasks |-> "idle"]
    /\ req = [t \in Tasks |-> None]
    /\ offset = [t \in Tasks |-> 0]
    /\ metadata = [t \in Tasks |-> None]
    /\ resp = [t \in Tasks |-> None]
    /\ writesStarted = 0
    /\ readsStarted = 0
    /\ wnum = [t \in Tasks |-> 0]
    /\ issued = {}
    /\ failed = {}
    /\ transferred = {}
    /\ readLog = {}
    /\ solo = [t \in Tasks |-> FALSE]
    /\ prevW = None
    /\ pred = [t \in Tasks |-> None]
    /\ init_len = BLen(file)
    /\ received = {}
    /\ rewritten = {}
    /\ hit = [t \in Tasks |-> FALSE]

\* no backend call has been made
BackendIdle ==
    /\ fbPos = 0
    /\ ringRes = None
    /\ fbRes = None
    /\ calls = 0

\* align_data_for_odirect has not been called on its own
AlignIdle ==
    /\ padIn = << >>
    /\ padOut = None

Init ==
    /\ ServiceInit
    /\ ringFile = << >>
    /\ fbFile = << >>
    /\ BackendIdle
    /\ AlignIdle

(* --------------------------- write_data -------------------------------- *)
\* a WriteRequest arrives: let req = request.into_inner()
RecvWrite(t) ==
    /\ FreeTask(t)
    /\ writesStarted < MaxWrites
    /\ \E id \in Ids, data \in Payloads :
         /\ req' = [req EXCEPT ![t] = [kind |-> "write", request_id |-> id, data |-> data]]
         /\ received' = received \cup {id}
         /\ rewritten' = IF id \in received THEN rewritten \cup {id} ELSE rewritten
    /\ pc' = [pc EXCEPT ![t] = "w_lock"]
    /\ writesStarted' = writesStarted + 1
    /\ wnum' = [wnum EXCEPT ![t] = writesStarted + 1]
    /\ solo' = [u \in Tasks |-> IF u = t THEN \A v \in Tasks : ~InFlightWrite(v)
                                ELSE IF InFlightWrite(u) THEN FALSE ELSE solo[u]]
    /\ pred' = [u \in Tasks |-> IF u = t
                                THEN IF \A v \in Tasks : ~InFlightWrite(v) THEN prevW ELSE None
                                ELSE IF InFlightRead(u) THEN None ELSE pred[u]]
    /\ UNCHANGED <<progVars, offset, metadata, resp, readsStarted, issued, failed,
                   transferred, readLog, prevW, init_len, hit>>
    /\ UNCHANGED <<backendVars, alignVars>>

\* self.file_manager.lock().unwrap()
WriteLock(t) ==
    /\ pc[t] = "w_lock"
    /\ fm_lock = NoTask
    /\ fm_lock' = t
    /\ pc' = [pc EXCEPT ![t] = "w_snapshot"]
    /\ UNCHANGED <<file, filePos, current_offset, request_map, map_lock,
                   req, offset, metadata, resp, histVars>>
    /\ UNCHANGED <<backendVars, alignVars>>

\* a write returns: bookkeeping of the history variables
WriteReturned(t, r) ==
    /\ resp' = [resp EXCEPT ![t] = r]
    /\ pc' = [pc EXCEPT ![t] = "done"]
    /\ prevW' = IF r.kind = "write_response" /\ r.success /\ solo[t]
                THEN [id |-> req[t].request_id, offset |-> r.offset, data |-> req[t].data]
                ELSE None

\* mutant of WriteSnapshot: the index entry is made when the offset is taken
WriteSnapshotEarlyInsert(t) ==
    /\ pc[t] = "w_snapshot"
    /\ fm_lock = t
    /\ fm_lock' = NoTask
    /\ offset' = [offset EXCEPT ![t] = current_offset]
    /\ request_map' = MapInsert(request_map, req[t].request_id,
                                [offset |-> current_offset,
                                 size |-> BLen(align_data_for_odirect(req[t].data))])
    /\ pc' = [pc EXCEPT ![t] = "w_seek"]
    /\ UNCHANGED <<file, filePos, current_offset, map_lock, req, metadata, resp,
                   histVars>>
    /\ UNCHANGED <<backendVars, alignVars>>

\* mutant of WriteSnapshot: the guard is kept across the transfer
WriteSnapshotKeepLock(t) ==
    /\ pc[t] = "w_snapshot"
    /\ fm_lock = t
    /\ offset' = [offset EXCEPT ![t] = current_offset]
    /\ pc' = [pc EXCEPT ![t] = "w_seek"]
    /\ UNCHANGED <<progVars, req, metadata, resp, histVars>>
    /\ UNCHANGED <<backendVars, alignVars>>

\* let offset = file_manager.current_offset; file.try_clone(); the guard drops
WriteSnapshot(t) ==
    /\ pc[t] = "w_snapshot"
    /\ fm_lock = t
    /\ fm_lock' = NoTask
    /\ \/ /\ offset' = [offset EXCEPT ![t] = current_offset]
          /\ pc' = [pc EXCEPT ![t] = "w_seek"]
          /\ UNCHANGED <<resp, prevW>>
       \/ /\ WriteReturned(t, StatusOf("Internal", "Failed to clone file"))
          /\ UNCHANGED offset
    /\ UNCHANGED <<file, filePos, current_offset, request_map, map_lock, req, metadata,
                   writesStarted, readsStarted, wnum, issued, failed, transferred,
                   readLog, solo, pred, init_len, received, rewritten, hit>>
    /\ UNCHANGED <<backendVars, alignVars>>

\* the Err(e) arm of write_data
WriteFailed(t, msg) ==
    WriteReturned(t, WriteResponse(req[t].request_id, 0, FALSE, msg))

\* perform_write: spawn_blocking; file.seek(SeekFrom::Start(offset))?
\* (lseek to an absolute offset of a regular file does not fail)
WriteSeek(t) ==
    /\ pc[t] = "w_seek"
    /\ issued' = issued \cup {[w |-> wnum[t], offset |-> offset[t],
                               len |-> BLen(align_data_for_odirect(req[t].data))]}
    /\ filePos' = offset[t]
    /\ pc' = [pc EXCEPT ![t] = "w_write_all"]
    /\ UNCHANGED <<file, current_offset, request_map, fm_lock, map_lock, req, offset,
                   metadata, resp, writesStarted, readsStarted, wnum, failed, transferred,
                   readLog, solo, prevW, pred, init_len, received, rewritten, hit>>
    /\ UNCHANGED <<backendVars, alignVars>>

\* file.write_all(&aligned_data)? at the shared file position
WriteAll(t) ==
    /\ pc[t] = "w_write_all"
    /\ LET buf == align_data_for_odirect(req[t].data) IN
       \/ /\ file' = WriteBytes(file, filePos, buf)
          /\ filePos' = filePos + BLen(buf)
          /\ transferred' = transferred \cup {req[t].request_id}
          /\ pc' = [pc EXCEPT ![t] = "w_commit_lock"]
          /\ UNCHANGED <<resp, prevW, failed>>
       \/ \* an I/O error after k bytes went out
          /\ BLen(buf) > 0
          /\ \E k \in {0, BlockSize} :
               /\ k < BLen(buf)
               /\ file' = WriteBytes(file, filePos, BTake(buf, k))
               /\ filePos' = filePos + k
          /\ WriteFailed(t, "write failed")
          /\ failed' = failed \cup {[w |-> wnum[t], offset |-> offset[t], len |-> BLen(buf)]}
          /\ UNCHANGED transferred
    /\ UNCHANGED <<current_offset, request_map, fm_lock, map_lock, req, offset, metadata,
                   writesStarted, readsStarted, wnum, issued, readLog, solo,
                   pred, init_len, received, rewritten, hit>>
    /\ UNCHANGED <<backendVars, alignVars>>

\* perform_write, "Update metadata": self.file_manager.lock().unwrap()
CommitLock(t) ==
    /\ pc[t] = "w_commit_lock"
    /\ fm_lock = NoTask
    /\ fm_lock' = t
    /\ pc' = [pc EXCEPT ![t] = "w_map_lock"]
    /\ UNCHANGED <<file, filePos, current_offset, request_map, map_lock,
                   req, offset, metadata, resp, histVars>>
    /\ UNCHANGED <<backendVars, alignVars>>

\* file_manager.request_map.lock().unwrap()
CommitMapLock(t) ==
    /\ pc[t] = "w_map_lock"
    /\ fm_lock = t
    /\ map_lock = NoTask
    /\ map_lock' = t
    /\ pc' = [pc EXCEPT ![t] = "w_commit"]
    /\ UNCHANGED <<file, filePos, current_offset, request_map, fm_lock,
                   req, offset, metadata, resp, histVars>>
    /\ UNCHANGED <<backendVars, alignVars>>

\* mutant of Commit: the entry is recorded but current_offset += size is left out
CommitNoAdvance(t) ==
    /\ pc[t] = "w_commit"
    /\ fm_lock = t /\ map_lock = t
    /\ request_map' = MapInsert(request_map, req[t].request_id,
                                [offset |-> offset[t],
                                 size |-> BLen(align_data_for_odirect(req[t].data))])
    /\ map_lock' = NoTask
    /\ fm_lock' = NoTask
    /\ WriteReturned(t, WriteResponse(req[t].request_id, offset[t], TRUE, ""))
    /\ UNCHANGED <<file, filePos, current_offset, req, offset, metadata, writesStarted,
                   readsStarted, wnum, issued, failed, transferred, readLog, solo, pred,
                   init_len, received, rewritten, hit>>
    /\ UNCHANGED <<backendVars, alignVars>>

\* mutant of Commit: the cursor advances by the payload length, data.len(),
\* instead of the length of the aligned buffer
CommitAdvanceLogical(t) ==
    /\ pc[t] = "w_commit"
    /\ fm_lock = t /\ map_lock = t
    /\ request_map' = MapInsert(request_map, req[t].request_id,
                                [offset |-> offset[t],
                                 size |-> BLen(align_data_for_odirect(req[t].data))])
    /\ current_offset' = current_offset + BLen(req[t].data)
    /\ map_lock' = NoTask
    /\ fm_lock' = NoTask
    /\ WriteReturned(t, WriteResponse(req[t].request_id, offset[t], TRUE, ""))
    /\ UNCHANGED <<file, filePos, req, offset, metadata, writesStarted, readsStarted, wnum,
                   issued, failed, transferred, readLog, solo, pred, init_len, received,
                   rewritten, hit>>
    /\ UNCHANGED <<backendVars, alignVars>>

\* request_map.insert(id, {offset, size}); drop(request_map);
\* current_offset += size; the guard drops; write_data answers Ok
Commit(t) ==
    /\ pc[t] = "w_commit"
    /\ fm_lock = t /\ map_lock = t
    /\ LET size == BLen(align_data_for_odirect(req[t].data)) IN
       /\ request_map' = MapInsert(request_map, req[t].request_id,
                                   [offset |-> offset[t], size |-> size])
       /\ current_offset' = current_offset + size
    /\ map_lock' = NoTask
    /\ fm_lock' = NoTask
    /\ WriteReturned(t, WriteResponse(req[t].request_id, offset[t], TRUE, ""))
    /\ UNCHANGED <<file, filePos, req, offset, metadata, writesStarted, readsStarted, wnum,
                   issued, failed, transferred, readLog, solo, pred, init_len, received, rewritten, hit>>
    /\ UNCHANGED <<backendVars, alignVars>>

(* ---------------------------- read_data -------------------------------- *)
\* a ReadRequest arrives
RecvRead(t) ==
    /\ FreeTask(t)
    /\ readsStarted < MaxReads
    /\ \E id \in Ids :
         req' = [req EXCEPT ![t] = [kind |-> "read", request_id |-> id]]
    /\ pc' = [pc EXCEPT ![t] = "r_lock"]
    /\ readsStarted' = readsStarted + 1
    /\ pred' = [pred EXCEPT ![t] = IF \A v \in Tasks : ~InFlightWrite(v) THEN prevW ELSE None]
    /\ UNCHANGED <<progVars, offset, metadata, resp, writesStarted, wnum, issued, failed,
                   transferred, readLog, solo, prevW, init_len, received, rewritten, hit>>
    /\ UNCHANGED <<backendVars, alignVars>>

\* self.file_manager.lock().unwrap()
ReadLock(t) ==
    /\ pc[t] = "r_lock"
    /\ fm_lock = NoTask
    /\ fm_lock' = t
    /\ pc' = [pc EXCEPT ![t] = "r_map_lock"]
    /\ UNCHANGED <<file, filePos, current_offset, request_map, map_lock,
                   req, offset, metadata, resp, histVars>>
    /\ UNCHANGED <<backendVars, alignVars>>

\* file_manager.request_map.lock().unwrap()
ReadMapLock(t) ==
    /\ pc[t] = "r_map_lock"
    /\ fm_lock = t
    /\ map_lock = NoTask
    /\ map_lock' = t
    /\ pc' = [pc EXCEPT ![t] = "r_lookup"]
    /\ UNCHANGED <<file, filePos, current_offset, request_map, fm_lock,
                   req, offset, metadata, resp, histVars>>
    /\ UNCHANGED <<backendVars, alignVars>>

\* mutant of ReadLookup: a missing entry reads as the default metadata
\* (metadata.unwrap_or_default()), so the read goes on with {offset 0, size 0}
ReadLookupDefault(t) ==
    /\ pc[t] = "r_lookup"
    /\ fm_lock = t /\ map_lock = t
    /\ map_lock' = NoTask
    /\ fm_lock' = NoTask
    /\ LET md == IF req[t].request_id \in DOMAIN request_map
                 THEN request_map[req[t].request_id]
                 ELSE [offset |-> 0, size |-> 0] IN
       /\ metadata' = [metadata EXCEPT ![t] = md]
       /\ offset' = [offset EXCEPT ![t] = md.offset]
    /\ hit' = [hit EXCEPT ![t] = req[t].request_id \in DOMAIN request_map]
    /\ pc' = [pc EXCEPT ![t] = "r_seek"]
    /\ UNCHANGED <<file, filePos, current_offset, request_map, req, resp, writesStarted,
                   readsStarted, wnum, issued, failed, transferred, readLog, solo,
                   prevW, pred, init_len, received, rewritten>>
    /\ UNCHANGED <<backendVars, alignVars>>

\* request_map.get(&request_id).cloned(); drop(request_map);
\* metadata.ok_or_else(not_found)?; file.try_clone()?; the guard drops
ReadLookup(t) ==
    /\ pc[t] = "r_lookup"
    /\ fm_lock = t /\ map_lock = t
    /\ map_lock' = NoTask
    /\ fm_lock' = NoTask
    /\ LET md == MapGet(request_map, req[t].request_id) IN
       /\ metadata' = [metadata EXCEPT ![t] = md]
       /\ hit' = [hit EXCEPT ![t] = req[t].request_id \in DOMAIN request_map]
       /\ IF md = None
          THEN /\ resp' = [resp EXCEPT ![t] = StatusOf("NotFound", "Request ID not found")]
               /\ pc' = [pc EXCEPT ![t] = "done"]
               /\ UNCHANGED offset
          ELSE \/ /\ offset' = [offset EXCEPT ![t] = md.offset]
                  /\ pc' = [pc EXCEPT ![t] = "r_seek"]
                  /\ UNCHANGED resp
               \/ /\ resp' = [resp EXCEPT ![t] = StatusOf("Internal", "Failed to clone file")]
                  /\ pc' = [pc EXCEPT ![t] = "done"]
                  /\ UNCHANGED offset
    /\ UNCHANGED <<file, filePos, current_offset, request_map, req, writesStarted,
                   readsStarted, wnum, issued, failed, transferred, readLog, solo,
                   prevW, pred, init_len, received, rewritten>>
    /\ UNCHANGED <<backendVars, alignVars>>

\* the Err(e) arm of read_data
ReadFailed(t, msg) ==
    /\ resp' = [resp EXCEPT ![t] = ReadResponse(req[t].request_id, << >>, FALSE, msg)]
    /\ pc' = [pc EXCEPT ![t] = "done"]

\* perform_read: spawn_blocking; file.seek(SeekFrom::Start(offset))?
ReadSeek(t) ==
    /\ pc[t] = "r_seek"
    /\ filePos' = offset[t]
    /\ pc' = [pc EXCEPT ![t] = "r_read_exact"]
    /\ UNCHANGED resp
    /\ UNCHANGED <<file, current_offset, request_map, fm_lock, map_lock, req, offset,
                   metadata, histVars>>
    /\ UNCHANGED <<backendVars, alignVars>>

\* let mut buffer = vec![0u8; aligned_size]; file.read_exact(&mut buffer)?;
\* buffer[..size].to_vec(); read_data answers Ok
ReadExact(t) ==
    /\ pc[t] = "r_read_exact"
    /\ LET size == metadata[t].size
           aligned_size == AlignedSize(size)
       IN
       \/ \* the whole buffer is filled (an empty buffer needs no read)
          /\ aligned_size = 0 \/ filePos + aligned_size <= BLen(file)
          /\ filePos' = filePos + aligned_size
          /\ LET data == BTake(ReadBytes(file, filePos, aligned_size), size) IN
             /\ resp' = [resp EXCEPT ![t] = ReadResponse(req[t].request_id, data, TRUE, "")]
             /\ readLog' = readLog \cup {[id |-> req[t].request_id, data |-> data]}
          /\ pc' = [pc EXCEPT ![t] = "done"]
       \/ \* end of file before the buffer is full: UnexpectedEof
          /\ aligned_size > 0
          /\ filePos + aligned_size > BLen(file)
          /\ filePos' = Max(filePos, BLen(file))
          /\ ReadFailed(t, "failed to fill whole buffer")
          /\ UNCHANGED readLog
       \/ \* an I/O error
          /\ aligned_size > 0
          /\ ReadFailed(t, "read failed")
          /\ UNCHANGED <<filePos, readLog>>
    /\ UNCHANGED <<file, current_offset, request_map, fm_lock, map_lock, req, offset,
                   metadata, writesStarted, readsStarted, wnum, issued, failed, transferred,
                   solo, prevW, pred, init_len, received, rewritten, hit>>
    /\ UNCHANGED <<backendVars, alignVars>>

\* the response has gone out; the task is free for the next request
Return(t) ==
    /\ pc[t] = "done"
    /\ pc' = [pc EXCEPT ![t] = "idle"]
    /\ req' = [req EXCEPT ![t] = None]
    /\ offset' = [offset EXCEPT ![t] = 0]
    /\ metadata' = [metadata EXCEPT ![t] = None]
    /\ resp' = [resp EXCEPT ![t] = None]
    /\ wnum' = [wnum EXCEPT ![t] = 0]
    /\ solo' = [solo EXCEPT ![t] = FALSE]
    /\ pred' = [pred EXCEPT ![t] = None]
    /\ hit' = [hit EXCEPT ![t] = FALSE]
    /\ UNCHANGED <<progVars, writesStarted, readsStarted, issued, failed, transferred,
                   readLog, prevW, init_len, received, rewritten>>
    /\ UNCHANGED <<backendVars, alignVars>>

Next ==
    \E t \in Tasks :
       \/ RecvWrite(t)
       \/ WriteLock(t)
       \/ WriteSnapshot(t)
       \/ WriteSeek(t)
       \/ WriteAll(t)
       \/ CommitLock(t)
       \/ CommitMapLock(t)
       \/ Commit(t)
       \/ RecvRead(t)
       \/ ReadLock(t)
       \/ ReadMapLock(t)
       \/ ReadLookup(t)
       \/ ReadSeek(t)
       \/ ReadExact(t)
       \/ Return(t)

Spec == Init /\ [][Next]_vars

\* the steps of task t that wait for a mutex
Acquire(t) ==
    \/ WriteLock(t)
    \/ CommitLock(t)
    \/ CommitMapLock(t)
    \/ ReadLock(t)
    \/ ReadMapLock(t)

\* the steps of task t that wait for nothing but the runtime and the device
Progress(t) ==
    \/ WriteSnapshot(t)
    \/ WriteSeek(t)
    \/ WriteAll(t)
    \/ Commit(t)
    \/ ReadLookup(t)
    \/ ReadSeek(t)
    \/ ReadExact(t)

\* the server starts on an empty data.bin
InitFair == Init /\ file = << >>

\* the steps of the service when every request carries the identifier "a"
\* and every WriteRequest the empty payload or one block and one byte
NextFair ==
    /\ Next
    /\ \A t \in Tasks :
          (pc[t] = "idle" /\ pc'[t] # "idle") =>
              /\ req'[t].request_id = "a"
              /\ req'[t].kind = "write" =>
                    req'[t].data \in {<< >>, Fill(BlockSize + 1, 7)}

\* the runtime keeps running every task, every transfer completes or fails,
\* and a task that keeps asking for a mutex that is free again and again
\* gets it
FairSpec ==
    /\ InitFair
    /\ [][NextFair]_vars
    /\ \A t \in Tasks : WF_vars(Progress(t)) /\ SF_vars(Acquire(t))

(* ------------------------ the FileIO backends -------------------------- *)
(* file_io.rs: LinuxFileIO (io_uring) and FallbackFileIO (blocking pool),  *)
(* driven with the same calls from the same file contents.  Calls take     *)
(* &mut self, so the calls of one backend do not overlap.  dev is what the *)
(* device does with the call: "ok", or "error" (an I/O error, no bytes).   *)
MaxCalls == 3

\* block-aligned buffers and offsets, and the sizes a read may ask for
WriteBufs == {Fill(BlockSize, 1), Fill(BlockSize, 2), Fill(BlockSize + BlockSize, 3)}
CallOffsets == {0, BlockSize, BlockSize + BlockSize}
ReadSizes == {0, 13, BlockSize, BlockSize + 1}

Ok(data) == [ok |-> TRUE, data |-> data]
Err == [ok |-> FALSE, data |-> << >>]

\* LinuxFileIO::write_at : self.file.write_at(data, offset).await?
\* one positioned write of the buffer as given
LinuxWriteAt(f, data, off, dev) ==
    IF dev = "ok"
    THEN [file |-> WriteBytes(f, off, data), res |-> Ok(<< >>)]
    ELSE [file |-> f, res |-> Err]

\* LinuxFileIO::read_at : buffer = vec![0u8; aligned_size];
\* self.file.read_at(buffer, offset).await?; buffer[..size].to_vec()
\* one positioned read: it fills as many bytes as the file has from offset
\* and is no error when that is fewer than the buffer holds
LinuxReadAt(f, size, off, dev) ==
    IF dev = "ok"
    THEN LET aligned_size == AlignedSize(size)
             got == ReadBytes(f, off, aligned_size)
             buffer == BCat(got, Fill(aligned_size - BLen(got), 0))
         IN [file |-> f, res |-> Ok(BTake(buffer, size))]
    ELSE [file |-> f, res |-> Err]

\* FallbackFileIO::write_at : align_data_for_odirect(data); try_clone;
\* spawn_blocking { seek(Start(offset))?; write_all(&aligned_data)? }
FallbackWriteAt(f, pos, data, off, dev) ==
    LET aligned_data == align_data_for_odirect(data) IN
    IF dev = "ok"
    THEN [file |-> WriteBytes(f, off, aligned_data),
          pos |-> off + BLen(aligned_data), res |-> Ok(<< >>)]
    ELSE [file |-> f, pos |-> off, res |-> Err]

\* FallbackFileIO::read_at : try_clone; spawn_blocking { seek(Start(offset))?;
\* buffer = vec![0u8; aligned_size]; read_exact(&mut buffer)?; buffer[..size] }
FallbackReadAt(f, pos, size, off, dev) ==
    LET aligned_size == AlignedSize(size) IN
    IF dev = "ok" /\ (aligned_size = 0 \/ off + aligned_size <= BLen(f))
    THEN [file |-> f, pos |-> off + aligned_size,
          res |-> Ok(BTake(ReadBytes(f, off, aligned_size), size))]
    ELSE IF dev = "ok"
    THEN \* UnexpectedEof: "failed to fill whole buffer"
         [file |-> f, pos |-> Max(off, BLen(f)), res |-> Err]
    ELSE [file |-> f, pos |-> off, res |-> Err]

\* both backends start on the same file contents
InitBackend ==
    /\ ServiceInit
    /\ file = << >>
    /\ ringFile \in InitFiles
    /\ fbFile = ringFile
    /\ BackendIdle
    /\ AlignIdle

\* the same write_at(bytes, offset) on both backends
CallWriteAt ==
    /\ calls < MaxCalls
    /\ \E data \in WriteBufs, off \in CallOffsets, dev \in {"ok", "error"} :
         LET r == LinuxWriteAt(ringFile, data, off, dev)
             f == FallbackWriteAt(fbFile, fbPos, data, off, dev)
         IN /\ ringFile' = r.file
            /\ ringRes' = r.res
            /\ fbFile' = f.file
            /\ fbPos' = f.pos
            /\ fbRes' = f.res
    /\ calls' = calls + 1
    /\ UNCHANGED <<serviceVars, alignVars>>

\* the same read_at(size, offset) on both backends
CallReadAt ==
    /\ calls < MaxCalls
    /\ \E size \in ReadSizes, off \in CallOffsets, dev \in {"ok", "error"} :
         LET r == LinuxReadAt(ringFile, size, off, dev)
             f == FallbackReadAt(fbFile, fbPos, size, off, dev)
         IN /\ ringFile' = r.file
            /\ ringRes' = r.res
            /\ fbFile' = f.file
            /\ fbPos' = f.pos
            /\ fbRes' = f.res
    /\ calls' = calls + 1
    /\ UNCHANGED <<serviceVars, alignVars>>

NextBackend == CallWriteAt \/ CallReadAt

SpecBackend == InitBackend /\ [][NextBackend]_vars

(* ------------------- align_data_for_odirect on its own ----------------- *)
\* the longest payload handed to align_data_for_odirect
MaxPayloadLen == 1025

\* the byte a payload is made of: zero (as the padding) or not
PadBytes == {0, 7}

InitAlign ==
    /\ ServiceInit
    /\ file = << >>
    /\ ringFile = << >>
    /\ fbFile = << >>
    /\ BackendIdle
    /\ AlignIdle

\* align_data_for_odirect(data) for a payload of any length up to the bound
CallAlign ==
    /\ \E n \in 0..MaxPayloadLen, b \in PadBytes :
         /\ padIn' = Fill(n, b)
         /\ padOut' = [data |-> align_data_for_odirect(Fill(n, b))]
    /\ UNCHANGED <<serviceVars, backendVars>>

NextAlign == CallAlign

SpecAlign == InitAlign /\ [][NextAlign]_vars

(* ======================================================================= *)
(*                               properties                                *)
(* ======================================================================= *)
\* ceil(n / 512) * 512, as the specification writes it
CeilDiv(n, d) == IF n % d = 0 THEN n \div d ELSE n \div d + 1
Footprint(n) == CeilDiv(n, 512) * 512

WriteDone(t) == IsWrite(t) /\ pc[t] = "done"
ReadDone(t) == IsRead(t) /\ pc[t] = "done"
WriteOk(t) == WriteDone(t) /\ resp[t].kind = "write_response" /\ resp[t].success
ReadOk(t) == ReadDone(t) /\ resp[t].kind = "read_response" /\ resp[t].success
NotFound(t) == ReadDone(t) /\ resp[t].kind = "status" /\ resp[t].code = "NotFound"
PastLookup(t) == IsRead(t) /\ pc[t] \in {"r_seek", "r_read_exact", "done"}

\* C1: the byte ranges [offset, offset + aligned(L)) at which any two
\* distinct writes with aligned(L) > 0 issue their transfers never overlap.
C1_RangesDisjoint ==
    \A x \in issued : \A y \in issued :
        (x.w # y.w /\ x.len > 0 /\ y.len > 0)
            => (x.offset + x.len <= y.offset \/ y.offset + y.len <= x.offset)

\* C2: round trip.  When WriteData(id, D) has returned success with no other
\* write in flight, and no write starts afterwards, a ReadData(id) that
\* succeeds returns exactly D: the same length, no padding appended.
C2_RoundTrip ==
    \A t \in Tasks :
        (ReadOk(t) /\ pred[t] # None /\ pred[t].id = req[t].request_id)
            => resp[t].data = pred[t].data

\* C3: a ReadData whose identifier has no entry in the index at the lookup
\* ends right there with the protocol status not-found: it never answers
\* with a response, and it never gets to seek or read the file.
C3_UnknownIdNotFound ==
    \A t \in Tasks :
        (PastLookup(t) /\ ~hit[t]) => NotFound(t)

\* C3 witness: a read of an identifier whose only write has transferred its
\* bytes but has not committed yet was answered not-found.
C3_Witness ==
    \E t \in Tasks :
        /\ NotFound(t) /\ ~hit[t]
        /\ req[t].request_id \in transferred
        /\ req[t].request_id \notin DOMAIN request_map

\* C4: every WriteData that fails, whatever the cause, answers with a normal
\* response carrying offset = 0, success = false and a non-empty
\* error_message, never with a protocol-level status.
C4_WriteFailureInPayload ==
    \A t \in Tasks :
        WriteDone(t) =>
            /\ resp[t].kind = "write_response"
            /\ ~resp[t].success => (resp[t].offset = 0 /\ resp[t].error_message # "")

\* C5: of two successful writes issued one after the other with no other
\* write in between, the second is answered the offset of the first plus
\* ceil(L1/512)*512; the first write of a volume is answered the cursor the
\* volume started with (0 on an empty file, so 13 bytes then give 512).
C5_NextOffset ==
    \A t \in Tasks :
        (WriteOk(t) /\ solo[t]) =>
            /\ pred[t] # None =>
                 resp[t].offset = pred[t].offset + Footprint(BLen(pred[t].data))
            /\ wnum[t] = 1 => resp[t].offset = init_len

\* C5 witness: on an empty volume a 13-byte write was answered offset 0 and
\* the write after it is answered offset 512.
C5_Witness ==
    \E t \in Tasks :
        /\ WriteOk(t) /\ solo[t] /\ pred[t] # None
        /\ init_len = 0
        /\ pred[t].offset = 0 /\ BLen(pred[t].data) = 13
        /\ resp[t].offset = 512

\* C6: idempotent re-read.  Any two successful ReadData of an identifier
\* that was written once return identical bytes, whatever writes under
\* other identifiers do before, between or during the two reads.
C6_RereadIdentical ==
    \A x \in readLog : \A y \in readLog :
        (x.id = y.id /\ x.id \notin rewritten) => x.data = y.data

\* C7: the range of a write whose transfer failed stays unused: the cursor
\* never moves back, and no write of a non-empty payload that takes its
\* offset after the failure is given an offset inside the range
\* [offset, offset + aligned(L)) of the failed one.
C7_FailedRangeUnused ==
    [][/\ current_offset' >= current_offset
       /\ \A t \in Tasks :
            (pc[t] = "w_snapshot" /\ pc'[t] = "w_seek" /\ BLen(req[t].data) > 0) =>
                \A f \in failed :
                    ~(f.offset <= offset'[t] /\ offset'[t] < f.offset + f.len)]_vars

\* C8: an identifier is a key of the index only if some write of it has had
\* its transfer complete; a read that found an entry read an identifier
\* whose transfer had completed (before that it is answered not-found).
C8_IndexOnlyAfterTransfer ==
    /\ DOMAIN request_map \subseteq transferred
    /\ \A t \in Tasks : (PastLookup(t) /\ ~NotFound(t)) => req[t].request_id \in transferred

\* C8 witness: one identifier is committed while the first write of another
\* is still in flight, has no entry, and a read of it was answered not-found.
C8_Witness ==
    \E t \in Tasks, u \in Tasks :
        /\ InFlightWrite(t)
        /\ pc[t] \in {"w_seek", "w_write_all"}
        /\ req[t].request_id \notin transferred
        /\ req[t].request_id \notin DOMAIN request_map
        /\ NotFound(u) /\ req[u].request_id = req[t].request_id
        /\ DOMAIN request_map # {}

\* C10: reserve-then-transfer.  A write reads the cursor and advances it by
\* aligned(L) in one critical section that ends before its transfer is
\* issued: while a write seeks or transfers, the cursor is already past its
\* range, and no other write holds the same cursor value for a range.
C10_ReserveBeforeTransfer ==
    \A t \in Tasks :
        (IsWrite(t) /\ pc[t] \in {"w_seek", "w_write_all"}) =>
            current_offset >= offset[t] + Footprint(BLen(req[t].data))

\* C9: backend equivalence.  From the same file contents, the same sequence
\* of write_at / read_at calls with block-aligned offsets and block-aligned
\* write buffers leaves the files of the ring backend and of the fallback
\* backend identical and returns the same result for every call.
C9_BackendsAgree ==
    /\ ringFile = fbFile
    /\ ringRes = fbRes

\* C11: a transfer goes to exactly the offset its own operation chose.
\* Between the seek of an operation and its write_all / read_exact no other
\* operation changes the file position it uses: when the transfer is about
\* to run (with a buffer that is not empty), the position of its handle is
\* still the offset it sought.
C11_OwnFilePosition ==
    \A t \in Tasks :
        /\ (pc[t] = "w_write_all" /\ BLen(req[t].data) > 0) => filePos = offset[t]
        /\ (pc[t] = "r_read_exact" /\ metadata[t].size > 0) => filePos = offset[t]

\* C12: under every interleaving of concurrent writes, every index entry
\* {offset, size} satisfies offset + aligned(size) <= write_cursor.  (The
\* entry and the advance of the cursor are made in one critical section.)
C12_EntriesBelowCursor ==
    \A id \in DOMAIN request_map :
        request_map[id].offset + Footprint(request_map[id].size) <= current_offset

\* C12 witness: two writes took the same cursor value and both committed, so
\* an entry of a non-empty range ends strictly below the cursor.
C12_Witness ==
    \E id \in DOMAIN request_map :
        /\ request_map[id].size > 0
        /\ request_map[id].offset + Footprint(request_map[id].size) < current_offset
        /\ \E x \in issued : \E y \in issued : x.w # y.w /\ x.offset = y.offset

\* C13: the write cursor never decreases; every step that changes it is the
\* commit of one write whose transfer completed and adds exactly aligned(L)
\* of that write; every write that succeeds advances it (once, at its
\* commit); reads and failed writes leave it unchanged.
C13_CursorAdvance ==
    [][/\ current_offset' >= current_offset
       /\ current_offset' # current_offset =>
            \E t \in Tasks :
                /\ IsWrite(t) /\ pc[t] = "w_commit" /\ pc'[t] = "done"
                /\ req[t].request_id \in transferred
                /\ resp'[t].kind = "write_response" /\ resp'[t].success
                /\ current_offset' = current_offset + Footprint(BLen(req[t].data))
       /\ \A t \in Tasks :
            (pc[t] # "done" /\ pc'[t] = "done") =>
                IF IsWrite(t) /\ resp'[t].kind = "write_response" /\ resp'[t].success
                THEN current_offset' = current_offset + Footprint(BLen(req[t].data))
                ELSE current_offset' = current_offset]_vars

\* C13 witness: one write failed, one 13-byte write committed, and the
\* cursor stands one block above where the volume started.
C13_Witness ==
    /\ failed # {}
    /\ current_offset = init_len + 512
    /\ \E t \in Tasks : WriteOk(t) /\ BLen(req[t].data) = 13

\* C14: whenever no write is in flight, bytes [0, write_cursor) of the file
\* are exactly the aligned segments of the writes whose transfer succeeded:
\* the file is as long as the cursor, and the ranges of those writes lie
\* between the startup length and the cursor and do not overlap (no holes,
\* every byte in one range).  Stated for runs in which no transfer failed.
C14_FileIsSegments ==
    ((\A t \in Tasks : ~InFlightWrite(t)) /\ failed = {}) =>
        /\ BLen(file) = current_offset
        /\ \A x \in issued :
              /\ init_len <= x.offset
              /\ x.offset + x.len <= current_offset
              /\ \A y \in issued :
                    (x.w # y.w /\ x.len > 0 /\ y.len > 0)
                        => (x.offset + x.len <= y.offset \/ y.offset + y.len <= x.offset)

\* the positions of a task between the seek and the end of its transfer
TransferPcs == {"w_seek", "w_write_all", "r_seek", "r_read_exact"}

\* C15: a task that holds the FileManager mutex or the request_map mutex is
\* never issuing or running a data transfer (seek + write_all / read_exact);
\* it holds them only at the steps that read or update the cursor and the
\* index, and request_map is only held inside FileManager.
C15_NoLockAcrossTransfer ==
    \A t \in Tasks :
        /\ (fm_lock = t \/ map_lock = t) => pc[t] \notin TransferPcs
        /\ fm_lock = t => pc[t] \in {"w_snapshot", "w_map_lock", "w_commit",
                                     "r_map_lock", "r_lookup"}
        /\ map_lock = t => (fm_lock = t /\ pc[t] \in {"w_commit", "r_lookup"})

\* one task is inside both mutexes while another one is in its transfer
C15_Witness ==
    \E t \in Tasks : \E u \in Tasks :
        /\ t # u
        /\ fm_lock = t
        /\ map_lock = t
        /\ pc[u] \in {"w_write_all", "r_read_exact"}

\* the buffer out is the payload pay followed by zero bytes up to length n
PaddedTo(out, pay, n) ==
    /\ BLen(out) = n
    /\ BTake(out, BLen(pay)) = pay
    /\ BDrop(out, BLen(pay)) = Fill(n - BLen(pay), 0)

\* C16 as stated: for every payload D of length L the buffer handed to the
\* transfer is D followed by zero bytes up to aligned(L), where aligned(L) is
\* ceil(L/512)*512 for L > 0 and 512 for the empty payload.
C16_PaddingEmptyIsBlock ==
    padOut # None =>
        PaddedTo(padOut.data, padIn,
                 IF BLen(padIn) = 0 THEN 512 ELSE CeilDiv(BLen(padIn), 512) * 512)

\* C16 amended: for every payload D of length L, the empty one included, the
\* buffer is D followed by zero bytes up to ceil(L/512)*512; the empty
\* payload gives the empty buffer.
C16_Padding ==
    padOut # None => PaddedTo(padOut.data, padIn, CeilDiv(BLen(padIn), 512) * 512)

\* the empty payload has been aligned: the buffer is empty
C16_Witness ==
    /\ padOut # None
    /\ padIn = << >>
    /\ padOut.data = << >>

\* C17: if the file's length at startup is a multiple of 512, then the
\* cursor is a multiple of 512 in every reachable state, and so is every
\* offset a write took or was answered with, every offset a transfer was
\* issued at and every offset stored in the index.
C17_BlockAligned ==
    init_len % 512 = 0 =>
        /\ current_offset % 512 = 0
        /\ \A t \in Tasks :
              /\ (IsWrite(t) /\ pc[t] \notin {"w_lock", "w_snapshot"}) => offset[t] % 512 = 0
              /\ WriteOk(t) => resp[t].offset % 512 = 0
        /\ \A x \in issued : x.offset % 512 = 0
        /\ \A id \in DOMAIN request_map : request_map[id].offset % 512 = 0

\* started on a one-block file, a 13-byte and a 513-byte write committed
C17_Witness ==
    /\ init_len = 512
    /\ current_offset = 512 + 512 + 1024
    /\ \E id \in DOMAIN request_map : request_map[id].offset = 1024

\* C18: a write is refused only when the handle cannot be duplicated or the
\* transfer fails, never because its identifier is in use; every write that
\* returns success leaves the index with the entry {its offset, its aligned
\* size} under its identifier, in place of any entry that was there, and the
\* entries of the other identifiers as they were; nothing else changes the
\* index, so the entry of an identifier is that of the write that committed
\* last.
C18_LastCommitWins ==
    [][/\ \A t \in Tasks :
            (IsWrite(t) /\ pc[t] # "done" /\ pc'[t] = "done") =>
                IF resp'[t].kind = "write_response" /\ resp'[t].success
                THEN /\ DOMAIN request_map' = DOMAIN request_map \cup {req[t].request_id}
                     /\ request_map'[req[t].request_id] =
                            [offset |-> resp'[t].offset,
                             size |-> Footprint(BLen(req[t].data))]
                     /\ \A k \in DOMAIN request_map \ {req[t].request_id} :
                            request_map'[k] = request_map[k]
                ELSE /\ request_map' = request_map
                     /\ pc[t] \in {"w_snapshot", "w_write_all"}
       /\ request_map' # request_map =>
            \E t \in Tasks : IsWrite(t) /\ pc[t] = "w_commit" /\ pc'[t] = "done"]_vars

\* two writes of one identifier both succeeded; the index holds the entry of
\* the one that started first (13 bytes, one block), which committed after
\* the one that started second (513 bytes, two blocks)
C18_Witness ==
    \E t \in Tasks : \E u \in Tasks :
        /\ WriteOk(t) /\ WriteOk(u)
        /\ wnum[t] = 1 /\ wnum[u] = 2
        /\ req[t].request_id = req[u].request_id
        /\ BLen(req[t].data) = 13 /\ BLen(req[u].data) = 513
        /\ req[t].request_id \in DOMAIN request_map
        /\ request_map[req[t].request_id].size = 512

\* C19: request_map is only ever held inside FileManager, and under fair
\* scheduling and fair mutexes every request that has been received
\* eventually has its response or status.
C19_EveryRequestReturns ==
    /\ [](\A t \in Tasks : map_lock = t => fm_lock = t)
    /\ \A t \in Tasks : (pc[t] \notin {"idle", "done"}) ~> (pc[t] = "done")

\* a write waits for the FileManager mutex, which a reader holds together
\* with the request_map mutex
C19_Witness ==
    \E t \in Tasks : \E u \in Tasks :
        /\ pc[t] \in {"w_lock", "w_commit_lock"}
        /\ fm_lock = u
        /\ map_lock = u
        /\ IsRead(u)

TypeOK ==
    /\ current_offset \in Nat
    /\ filePos \in Nat
    /\ fm_lock \in Tasks \cup {NoTask}
    /\ map_lock \in Tasks \cup {NoTask}
    /\ DOMAIN request_map \subseteq Ids
====
